---- MODULE Spec2Model ----
(***************************************************************************)
(* Scoring and tier assignment of LaLigaTL: TierCalculator                 *)
(* (src/tier_calculator.py) and PlayerAnalyzer (src/player_analyzer.py).   *)
(*                                                                         *)
(* Scores and raw metric values are integers; quotients are kept as exact  *)
(* fractions <<numerator, denominator>> with a positive denominator.       *)
(* A score map (a Python dict) is a sequence of [team, score] records in   *)
(* the dict's iteration order, with pairwise distinct keys.                *)
(***************************************************************************)
EXTENDS Integers, Sequences, FiniteSets, TLC

VARIABLES
    team_scores,   \* the argument of assign_tiers: <<[team, score], ...>>
    tiers,         \* the mapping assign_tiers returned (team -> tier)
    tier_call,     \* "pending", "returned" or "raised"
    column,        \* one metric column of a group: <<raw value, ...>>
    normalized,    \* the '<metric>_norm' column computed from it
    norm_call,     \* "pending", or the normalizer that produced normalized
    players_data,  \* the player table: <<[name, position, stats], ...>>
    columns,       \* the metric columns of the player table
    position,      \* the position argument of calculate_player_scores
    player_scores, \* the dict calculate_player_scores returned: <<[name, score], ...>>
    player_call,   \* "pending", "returned" or "raised"
    teams_data,    \* the team table: <<[team, stats], ...>>
    scores,        \* the dict calculate_team_scores returned: <<[name, score], ...>>
    team_call,     \* "pending" or "returned"
    top_n,         \* the top_n argument of get_top_players_by_position
    top_players,   \* the table get_top_players_by_position returned
    top_call,      \* "pending" or "returned"
    player1,       \* the first record given to compare_players
    player2,       \* the second record given to compare_players
    comparison,    \* the mapping compare_players returned
    compare_call,  \* "pending", "returned" or "raised"
    analysis,      \* the mapping get_tier_analysis returned (tier -> entry)
    analysis_call, \* "pending" or "returned"
    team_name,     \* the team_name argument of analyze_team_squad
    squad,         \* the mapping analyze_team_squad returned
    squad_call     \* "pending", "returned" or "raised"

tier_vars == <<team_scores, tiers, tier_call>>
norm_vars == <<column, normalized, norm_call>>
player_vars == <<players_data, columns, position, player_scores, player_call>>
team_vars == <<teams_data, scores, team_call>>
top_vars == <<top_n, top_players, top_call>>
compare_vars == <<player1, player2, comparison, compare_call>>
report_vars == <<analysis, analysis_call, team_name, squad, squad_call>>
vars == <<tier_vars, norm_vars, player_vars, team_vars, top_vars, compare_vars, report_vars>>

----------------------------------------------------------------------------
(* Bounds of the tier model *)

\* largest number of entities in a score map
MaxTeams == 21

\* largest number of blocks of equal consecutive scores, in insertion order
MaxRuns == 3

\* the scores an entity can have
Scores == {80, 95}

----------------------------------------------------------------------------
(* TierCalculator.assign_tiers and _balance_tiers *)

tier_order == <<"S", "A", "B", "C", "D">>

ideal_distribution == [S |-> 3, A |-> 4, B |-> 5, C |-> 5, D |-> 3]

TierNames == {tier_order[i] : i \in 1..Len(tier_order)}

\* position of a tier in tier_order: 1 is the best
TierRank(t) == CHOOSE i \in 1..Len(tier_order) : tier_order[i] = t

\* an unstable variant: x goes before the elements that tie with it
RECURSIVE InsertDescUnstable(_, _)
InsertDescUnstable(x, s) ==
    IF s = <<>> THEN <<x>>
    ELSE IF Head(s).score > x.score
         THEN <<Head(s)>> \o InsertDescUnstable(x, Tail(s))
         ELSE <<x>> \o s

\* list.insert for the stable descending sort: x goes after every element
\* whose score is >= its own
RECURSIVE InsertDesc(_, _)
InsertDesc(x, s) ==
    IF s = <<>> THEN <<x>>
    ELSE IF Head(s).score >= x.score
         THEN <<Head(s)>> \o InsertDesc(x, Tail(s))
         ELSE <<x>> \o s

\* an ascending variant: reverse=True forgotten
RECURSIVE SortedTeamsAscending(_)
SortedTeamsAscending(items) ==
    IF items = <<>> THEN <<>>
    ELSE LET rest == SortedTeamsAscending(SubSeq(items, 1, Len(items) - 1))
             x    == items[Len(items)]
             k    == Cardinality({i \in 1..Len(rest) : rest[i].score <= x.score})
         IN  SubSeq(rest, 1, k) \o <<x>> \o SubSeq(rest, k + 1, Len(rest))

\* sorted(team_scores.items(), key=lambda x: x[1], reverse=True)
RECURSIVE SortedTeams(_)
SortedTeams(items) ==
    IF items = <<>> THEN <<>>
    ELSE InsertDesc(items[Len(items)], SortedTeams(SubSeq(items, 1, Len(items) - 1)))

\* 100 * np.percentile(scores_list, q), linear interpolation, of a non-empty
\* list given in descending order
Percentile100(sorted, q) ==
    LET n    == Len(sorted)
        asc(i) == sorted[n + 1 - i].score
        pos  == (n - 1) * q
        lo   == (pos \div 100) + 1
        hi   == IF lo < n THEN lo + 1 ELSE n
        frac == pos % 100
    IN  asc(lo) * 100 + (asc(hi) - asc(lo)) * frac

\* the first-pass label of a score (tier_calculator.py lines 81-91)
FirstPassTier(sorted, score) ==
    IF score * 100 >= Percentile100(sorted, 85) THEN "S"
    ELSE IF score * 100 >= Percentile100(sorted, 65) THEN "A"
    ELSE IF score * 100 >= Percentile100(sorted, 40) THEN "B"
    ELSE IF score * 100 >= Percentile100(sorted, 20) THEN "C"
    ELSE "D"

\* the dict tiers built by the first pass
FirstPass(sorted) ==
    [name \in {sorted[i].team : i \in 1..Len(sorted)} |->
        LET i == CHOOSE j \in 1..Len(sorted) : sorted[j].team = name
        IN  FirstPassTier(sorted, sorted[i].score)]

\* tier_counts of _balance_tiers (computed, never read again)
TierCounts(first) ==
    [t \in TierNames |-> Cardinality({n \in DOMAIN first : first[n] = t})]

\* the tiers that still have room, as positions in tier_order
Room(counts) ==
    {i \in 1..Len(tier_order) : counts[tier_order[i]] < ideal_distribution[tier_order[i]]}

Min(S) == CHOOSE x \in S : \A y \in S : x <= y
Max(S) == CHOOSE x \in S : \A y \in S : x >= y

\* a variant whose fallback puts the entity in the last tier when no tier
\* has room
BalanceStepOverflow(st, entry) ==
    LET room == Room(st.counts)
        t    == IF room # {} THEN tier_order[Min(room)] ELSE tier_order[Len(tier_order)]
    IN  [balanced |-> (entry.team :> t) @@ st.balanced,
         counts   |-> [st.counts EXCEPT ![t] = @ + 1]]

\* a variant that takes the worst tier with room instead of the best
BalanceStepWorstFirst(st, entry) ==
    LET room == Room(st.counts) IN
    IF room # {}
    THEN LET t == tier_order[Max(room)] IN
         [balanced |-> (entry.team :> t) @@ st.balanced,
          counts   |-> [st.counts EXCEPT ![t] = @ + 1]]
    ELSE st

\* one iteration of the loop "for team, score in sorted_teams" of _balance_tiers
BalanceStep(st, entry) ==
    LET room == Room(st.counts) IN
    IF room # {}
    THEN \* for tier in tier_order: first tier below its target
         LET t == tier_order[Min(room)] IN
         [balanced |-> (entry.team :> t) @@ st.balanced,
          counts   |-> [st.counts EXCEPT ![t] = @ + 1]]
    ELSE \* if not assigned: for tier in reversed(tier_order), same condition
         LET back == Room(st.counts) IN
         IF back # {}
         THEN LET t == tier_order[Max(back)] IN
              [balanced |-> (entry.team :> t) @@ st.balanced,
               counts   |-> [st.counts EXCEPT ![t] = @ + 1]]
         ELSE st

\* balanced_tiers and current_counts after the first k iterations of the walk
RECURSIVE BalanceWalk(_, _)
BalanceWalk(sorted, k) ==
    IF k = 0
    THEN [balanced |-> <<>>, counts |-> [t \in TierNames |-> 0]]
    ELSE BalanceStep(BalanceWalk(sorted, k - 1), sorted[k])

\* a variant that keeps the first-pass label of an entity when that tier
\* still has room
RECURSIVE BalanceWalkKeeping(_, _, _)
BalanceWalkKeeping(first, sorted, k) ==
    IF k = 0
    THEN [balanced |-> <<>>, counts |-> [t \in TierNames |-> 0]]
    ELSE LET st   == BalanceWalkKeeping(first, sorted, k - 1)
             name == sorted[k].team
         IN  IF name \in DOMAIN first /\ TierRank(first[name]) \in Room(st.counts)
             THEN [balanced |-> (name :> first[name]) @@ st.balanced,
                   counts   |-> [st.counts EXCEPT ![first[name]] = @ + 1]]
             ELSE BalanceStep(st, sorted[k])

BalanceTiersKeepsFirstPass(first, sorted) ==
    BalanceWalkKeeping(first, sorted, Len(sorted)).balanced

\* a variant that returns the first-pass labels instead of balanced_tiers
BalanceTiersReturnsFirstPass(first, sorted) == first

\* _balance_tiers(tiers, sorted_teams)
BalanceTiers(first, sorted) ==
    LET tier_counts == TierCounts(first)
    IN  BalanceWalk(sorted, Len(sorted)).balanced

\* the value assign_tiers returns when np.percentile does not raise
AssignTiersResult(score_map) ==
    LET sorted == SortedTeams(score_map)
    IN  IF sorted = <<>> THEN BalanceTiers(<<>>, sorted)
        ELSE BalanceTiers(FirstPass(sorted), sorted)

----------------------------------------------------------------------------
(* The tier state machine *)

\* number of blocks of equal consecutive scores of a score sequence
Runs(items) ==
    IF items = <<>> THEN 0
    ELSE 1 + Cardinality({i \in 1..(Len(items) - 1) : items[i].score # items[i + 1].score})

TierIdle ==
    /\ team_scores = <<>>
    /\ tiers = <<>>
    /\ tier_call = "pending"

NormIdle ==
    /\ column = <<>>
    /\ normalized = <<>>
    /\ norm_call = "pending"

PlayerIdle ==
    /\ players_data = <<>>
    /\ columns = {}
    /\ position = "Forward"
    /\ player_scores = <<>>
    /\ player_call = "pending"

TeamIdle ==
    /\ teams_data = <<>>
    /\ scores = <<>>
    /\ team_call = "pending"

TopIdle ==
    /\ top_n = 0
    /\ top_players = <<>>
    /\ top_call = "pending"

CompareIdle ==
    /\ player1 = <<>>
    /\ player2 = <<>>
    /\ comparison = <<>>
    /\ compare_call = "pending"

ReportIdle ==
    /\ analysis = <<>>
    /\ analysis_call = "pending"
    /\ team_name = ""
    /\ squad = <<>>
    /\ squad_call = "pending"

Init == TierIdle /\ NormIdle /\ PlayerIdle /\ TeamIdle /\ TopIdle /\ CompareIdle /\ ReportIdle

\* the caller adds an entity to the score map: scores[team] = score
PutScore(s) ==
    /\ tier_call = "pending"
    /\ Len(team_scores) < MaxTeams
    /\ LET next == Append(team_scores, [team |-> Len(team_scores) + 1, score |-> s])
       IN  /\ Runs(next) <= MaxRuns
           /\ team_scores' = next
    /\ UNCHANGED <<tiers, tier_call, norm_vars, player_vars, team_vars, top_vars, compare_vars, report_vars>>

\* assign_tiers(team_scores) returns
AssignTiersReturns ==
    /\ tier_call = "pending"
    /\ tiers' = AssignTiersResult(team_scores)
    /\ tier_call' = "returned"
    /\ UNCHANGED <<team_scores, norm_vars, player_vars, team_vars, top_vars, compare_vars, report_vars>>

\* assign_tiers(team_scores) raises: np.percentile of an empty list raises
\* IndexError in numpy >= 1.22 (older releases return nan with a warning)
AssignTiersRaises ==
    /\ tier_call = "pending"
    /\ team_scores = <<>>
    /\ tier_call' = "raised"
    /\ UNCHANGED <<team_scores, tiers, norm_vars, player_vars, team_vars, top_vars, compare_vars, report_vars>>

Next ==
    \/ \E s \in Scores : PutScore(s)
    \/ AssignTiersReturns
    \/ AssignTiersRaises

Spec == Init /\ [][Next]_vars

----------------------------------------------------------------------------
(* Numbers: exact fractions <<n, d>> with d > 0; <<0, 0>> is NaN *)

NaN == <<0, 0>>

IsNaN(x) == x[2] = 0

Abs(n) == IF n < 0 THEN -n ELSE n

RECURSIVE GCD(_, _)
GCD(a, b) == IF b = 0 THEN a ELSE GCD(b, a % b)

\* the fraction n/d in lowest terms; a zero denominator gives NaN
Frac(n, d) ==
    IF d = 0 THEN NaN
    ELSE LET g == GCD(Abs(n), Abs(d))
             sgn == IF d < 0 THEN -1 ELSE 1
         IN  <<(sgn * n) \div g, (sgn * d) \div g>>

Num(i) == <<i, 1>>

Add(x, y) == IF IsNaN(x) \/ IsNaN(y) THEN NaN ELSE Frac(x[1] * y[2] + y[1] * x[2], x[2] * y[2])
Sub(x, y) == IF IsNaN(x) \/ IsNaN(y) THEN NaN ELSE Frac(x[1] * y[2] - y[1] * x[2], x[2] * y[2])
Mul(x, y) == IF IsNaN(x) \/ IsNaN(y) THEN NaN ELSE Frac(x[1] * y[1], x[2] * y[2])
Div(x, y) == IF IsNaN(x) \/ IsNaN(y) THEN NaN ELSE Frac(x[1] * y[2], x[2] * y[1])

\* comparisons with NaN are false, except !=
Less(x, y) == ~IsNaN(x) /\ ~IsNaN(y) /\ x[1] * y[2] < y[1] * x[2]
Equal(x, y) == ~IsNaN(x) /\ ~IsNaN(y) /\ x[1] * y[2] = y[1] * x[2]
NotEqual(x, y) == ~Equal(x, y)
LessEq(x, y) == Less(x, y) \/ Equal(x, y)

----------------------------------------------------------------------------
(* TierCalculator.get_tier_analysis *)

\* _get_tier_characteristics(tier)
TierCharacteristics(tier) ==
    IF tier = "S" THEN <<"Elite teams competing for titles",
                         "Exceptional attacking and defensive balance",
                         "High possession and pass accuracy",
                         "World-class players in key positions",
                         "Consistent performance throughout season">>
    ELSE IF tier = "A" THEN <<"Strong teams competing for European qualification",
                         "Good balance between attack and defense",
                         "Solid tactical organization",
                         "Quality squad depth",
                         "Capable of beating top teams on their day">>
    ELSE IF tier = "B" THEN <<"Mid-table teams with clear strengths",
                         "May excel in specific areas (attack/defense)",
                         "Inconsistent performance levels",
                         "Limited squad depth",
                         "Fighting for European spots or avoiding relegation">>
    ELSE IF tier = "C" THEN <<"Teams struggling for consistency",
                         "Defensive or attacking weaknesses",
                         "Reliant on key players",
                         "Limited financial resources",
                         "Fighting to avoid relegation">>
    ELSE IF tier = "D" THEN <<"Teams with significant weaknesses",
                         "Poor defensive organization",
                         "Limited attacking threat",
                         "Squad quality concerns",
                         "High risk of relegation">>
    ELSE <<>>

\* tiers.items(): the entries of the dict in insertion order, which is the
\* order of the walk over sorted_teams
DictItems(sorted, tier_map) ==
    LET kept == SelectSeq(sorted, LAMBDA e : e.team \in DOMAIN tier_map)
    IN  [i \in 1..Len(kept) |-> <<kept[i].team, tier_map[kept[i].team]>>]

\* [team for team, t in tiers.items() if t == tier]
TierTeams(items, tier) ==
    LET kept == SelectSeq(items, LAMBDA e : e[2] = tier)
    IN  [i \in 1..Len(kept) |-> kept[i][1]]

\* the sum of the values of a column of fractions that are not NaN
RECURSIVE SumSkipNa(_)
SumSkipNa(values) ==
    IF values = <<>> THEN Num(0)
    ELSE IF IsNaN(Head(values)) THEN SumSkipNa(Tail(values))
    ELSE Add(Head(values), SumSkipNa(Tail(values)))

\* Series.mean(): NaN values are skipped, NaN when none is left
MeanSkipNa(values) ==
    LET present == SelectSeq(values, LAMBDA v : ~IsNaN(v))
    IN  IF present = <<>> THEN NaN ELSE Div(SumSkipNa(present), Num(Len(present)))

\* tier_data[col].mean() for tier_data = teams_data[teams_data['team'].isin(tier_teams)]
TierMean(data, tier_teams, col) ==
    LET tier_data == SelectSeq(data, LAMBDA r : \E i \in 1..Len(tier_teams) : tier_teams[i] = r.team)
    IN  MeanSkipNa([i \in 1..Len(tier_data) |-> tier_data[i].stats[col]])

\* analysis[tier] of get_tier_analysis
TierEntry(data, items, tier) ==
    LET tier_teams == TierTeams(items, tier)
    IN  [teams |-> tier_teams,
         count |-> Len(tier_teams),
         avg_points |-> TierMean(data, tier_teams, "points"),
         avg_goals_for |-> TierMean(data, tier_teams, "goals_for"),
         avg_goals_against |-> TierMean(data, tier_teams, "goals_against"),
         avg_possession |-> TierMean(data, tier_teams, "possession_avg"),
         characteristics |-> TierCharacteristics(tier)]

\* a variant that reports every tier, also one without teams
GetTierAnalysisOfEveryTier(data, items) ==
    [tier \in TierNames |-> TierEntry(data, items, tier)]

\* get_tier_analysis(teams_data, tiers), tiers given by its items
GetTierAnalysis(data, items) ==
    [tier \in {t \in TierNames : TierTeams(items, t) # <<>>} |-> TierEntry(data, items, tier)]

\* get_tier_analysis(teams_data, tiers) returns, called with the assignment
\* assign_tiers returned
GetTierAnalysisReturns ==
    /\ tier_call = "returned"
    /\ analysis_call = "pending"
    /\ analysis' = GetTierAnalysis(teams_data, DictItems(SortedTeams(team_scores), tiers))
    /\ analysis_call' = "returned"
    /\ UNCHANGED <<team_name, squad, squad_call, tier_vars, norm_vars, player_vars, team_vars, top_vars, compare_vars>>

TierNext ==
    \/ Next
    \/ GetTierAnalysisReturns

TierSpec == Init /\ [][TierNext]_vars

----------------------------------------------------------------------------
(* Min-max normalization of one metric column *)

\* largest number of entities in a normalization group
MaxGroup == 4

\* the raw values of a metric
RawValues == {NaN, Num(-3), Num(-1), Num(0), Num(2)}

\* rows of a column that hold a number
Present(col) == {i \in 1..Len(col) : ~IsNaN(col[i])}

\* Series.max() and Series.min(): NaN is skipped; NaN when nothing is left
ColMax(col) ==
    IF Present(col) = {} THEN NaN
    ELSE col[CHOOSE i \in Present(col) : \A j \in Present(col) : ~Less(col[i], col[j])]

ColMin(col) ==
    IF Present(col) = {} THEN NaN
    ELSE col[CHOOSE i \in Present(col) : \A j \in Present(col) : ~Less(col[j], col[i])]

\* ((col - min_val) / (max_val - min_val)) * 100
ScaleUp(col, min_val, max_val) ==
    [i \in 1..Len(col) |-> Mul(Div(Sub(col[i], min_val), Sub(max_val, min_val)), Num(100))]

\* ((max_val - col) / (max_val - min_val)) * 100
ScaleDown(col, min_val, max_val) ==
    [i \in 1..Len(col) |-> Mul(Div(Sub(max_val, col[i]), Sub(max_val, min_val)), Num(100))]

\* column = 50: the scalar goes to every row
Fifty(col) == [i \in 1..Len(col) |-> Num(50)]

\* a variant without the max_val != min_val test
TeamNormHigherUnguarded(col) == ScaleUp(col, ColMin(col), ColMax(col))

\* calculate_team_scores, higher-is-better metrics
TeamNormHigher(col) ==
    LET max_val == ColMax(col)
        min_val == ColMin(col)
    IN  IF NotEqual(max_val, min_val) THEN ScaleUp(col, min_val, max_val)
        ELSE Fifty(col)

\* a variant that does not invert
TeamNormLowerNotInverted(col) ==
    LET max_val == ColMax(col)
        min_val == ColMin(col)
    IN  IF NotEqual(max_val, min_val) THEN ScaleUp(col, min_val, max_val)
        ELSE Fifty(col)

\* calculate_team_scores, lower-is-better metrics
TeamNormLower(col) ==
    LET max_val == ColMax(col)
        min_val == ColMin(col)
    IN  IF NotEqual(max_val, min_val) THEN ScaleDown(col, min_val, max_val)
        ELSE Fifty(col)

\* _normalize_position_metrics, one metric
PlayerNorm(col) ==
    LET max_val == ColMax(col)
        min_val == ColMin(col)
    IN  IF NotEqual(max_val, min_val) /\ Less(Num(0), max_val)
        THEN ScaleUp(col, min_val, max_val)
        ELSE Fifty(col)

\* a group supplies one more raw value of the metric
AppendRaw(v) ==
    /\ norm_call = "pending"
    /\ Len(column) < MaxGroup
    /\ column' = Append(column, v)
    /\ UNCHANGED <<normalized, norm_call, tier_vars, player_vars, team_vars, top_vars, compare_vars, report_vars>>

NormalizeTeamHigher ==
    /\ norm_call = "pending"
    /\ normalized' = TeamNormHigher(column)
    /\ norm_call' = "team_higher"
    /\ UNCHANGED <<column, tier_vars, player_vars, team_vars, top_vars, compare_vars, report_vars>>

NormalizeTeamLower ==
    /\ norm_call = "pending"
    /\ normalized' = TeamNormLower(column)
    /\ norm_call' = "team_lower"
    /\ UNCHANGED <<column, tier_vars, player_vars, team_vars, top_vars, compare_vars, report_vars>>

NormalizePlayer ==
    /\ norm_call = "pending"
    /\ normalized' = PlayerNorm(column)
    /\ norm_call' = "player"
    /\ UNCHANGED <<column, tier_vars, player_vars, team_vars, top_vars, compare_vars, report_vars>>

NormNext ==
    \/ \E v \in RawValues : AppendRaw(v)
    \/ NormalizeTeamHigher
    \/ NormalizeTeamLower
    \/ NormalizePlayer

NormSpec == Init /\ [][NormNext]_vars

----------------------------------------------------------------------------
(* PlayerAnalyzer.calculate_player_scores *)

\* largest number of rows of the player table
MaxPlayers == 3

\* the values a player's metric can have
StatValues == {NaN, Num(0), Num(2)}

\* the metric columns a player table can have
ColumnSets == {{"goals", "assists"}, {"goals", "clean_sheets"}}

\* the positions calculate_player_scores is called for
PositionArgs == {"Forward", "Defender", "Winger"}

\* self.position_weights: per position, the (metric, weight) items in dict order
position_weights ==
    [Forward    |-> << <<"goals", Frac(40, 100)>>, <<"assists", Frac(25, 100)>>,
                       <<"appearances", Frac(15, 100)>>, <<"market_value", Frac(20, 100)>> >>,
     Midfielder |-> << <<"goals", Frac(20, 100)>>, <<"assists", Frac(35, 100)>>,
                       <<"appearances", Frac(20, 100)>>, <<"market_value", Frac(25, 100)>> >>,
     Defender   |-> << <<"goals", Frac(10, 100)>>, <<"assists", Frac(15, 100)>>,
                       <<"clean_sheets", Frac(35, 100)>>, <<"appearances", Frac(20, 100)>>,
                       <<"market_value", Frac(20, 100)>> >>,
     Goalkeeper |-> << <<"saves", Frac(40, 100)>>, <<"clean_sheets", Frac(35, 100)>>,
                       <<"appearances", Frac(15, 100)>>, <<"market_value", Frac(10, 100)>> >>]

\* self.position_weights.get(position, self.position_weights['Forward'])
WeightsFor(pos) ==
    IF pos \in DOMAIN position_weights THEN position_weights[pos]
    ELSE position_weights["Forward"]

\* a variant in which the handler's frame is the caller's frame, not a copy
CallerFrameAliased(original, working) == working

\* the caller's frame after the handler wrote its derived columns to working,
\* which is a copy of it (DataFrame.copy()): the caller's rows are as before
CallerFrame(original, working) == original

\* a variant that keeps the records of every position
PositionPlayersUnfiltered(data, pos) == data

\* players_data[players_data['position'] == position]
PositionPlayers(data, pos) == SelectSeq(data, LAMBDA r : r.position = pos)

\* the column of one metric of a table
MetricColumn(rows, metric) == [i \in 1..Len(rows) |-> rows[i].stats[metric]]

\* _normalize_position_metrics: the '<metric>_norm' columns it adds, by metric
NormalizePositionMetrics(rows, cols, pos) ==
    LET metrics_to_normalize ==
            {position_weights[pos][k][1] : k \in 1..Len(position_weights[pos])}
    IN  [metric \in metrics_to_normalize \cap cols |-> PlayerNorm(MetricColumn(rows, metric))]

\* score and total_weight of row i after the first k items of weights
RECURSIVE Accumulate(_, _, _, _)
Accumulate(norms, weights, i, k) ==
    IF k = 0 THEN [score |-> Num(0), total_weight |-> Num(0)]
    ELSE LET before == Accumulate(norms, weights, i, k - 1)
             metric == weights[k][1]
             weight == weights[k][2]
         IN  IF metric \in DOMAIN norms /\ ~IsNaN(norms[metric][i])
             THEN [score        |-> Add(before.score, Mul(norms[metric][i], weight)),
                   total_weight |-> Add(before.total_weight, weight)]
             ELSE before

\* a variant that returns the weighted mean without the final * 100
PlayerScoreWeightedMean(norms, weights, i) ==
    LET acc == Accumulate(norms, weights, i, Len(weights))
    IN  IF Less(Num(0), acc.total_weight)
        THEN Div(acc.score, acc.total_weight)
        ELSE acc.score

\* a variant without the total_weight > 0 test
PlayerScoreUnguarded(norms, weights, i) ==
    LET acc == Accumulate(norms, weights, i, Len(weights))
    IN  Mul(Div(acc.score, acc.total_weight), Num(100))

\* the score of row i (player_analyzer.py lines 54-65)
PlayerScore(norms, weights, i) ==
    LET acc == Accumulate(norms, weights, i, Len(weights))
    IN  IF Less(Num(0), acc.total_weight)
        THEN Mul(Div(acc.score, acc.total_weight), Num(100))
        ELSE acc.score

\* a variant that keeps the first score stored for a name
DictPutKeepsFirst(d, name, score) ==
    IF \E k \in 1..Len(d) : d[k].name = name THEN d
    ELSE Append(d, [name |-> name, score |-> score])

\* scores[name] = score on a dict kept in insertion order
DictPut(d, name, score) ==
    IF \E k \in 1..Len(d) : d[k].name = name
    THEN [k \in 1..Len(d) |-> IF d[k].name = name THEN [name |-> name, score |-> score] ELSE d[k]]
    ELSE Append(d, [name |-> name, score |-> score])

\* the dict scores after the first k rows
RECURSIVE ScoreRows(_, _, _, _)
ScoreRows(rows, norms, weights, k) ==
    IF k = 0 THEN <<>>
    ELSE DictPut(ScoreRows(rows, norms, weights, k - 1), rows[k].name,
                 PlayerScore(norms, weights, k))

\* calculate_player_scores(players_data, position), when it does not raise
CalculatePlayerScores(data, cols, pos) ==
    IF data = <<>> THEN <<>>
    ELSE LET position_players == PositionPlayers(data, pos) IN
         IF position_players = <<>> THEN <<>>
         ELSE LET weights == WeightsFor(pos)
                  normalized_data == NormalizePositionMetrics(position_players, cols, pos)
              IN  ScoreRows(position_players, normalized_data, weights, Len(position_players))

\* a variant without the early returns: the weight map is looked up for an
\* empty group too
PlayerScoresRaiseOnEmptyGroup(data, pos) == pos \notin DOMAIN position_weights

\* calculate_player_scores raises KeyError: self.position_weights[position]
\* in _normalize_position_metrics, reached with a non-empty position group
PlayerScoresRaise(data, pos) ==
    /\ PositionPlayers(data, pos) # <<>>
    /\ pos \notin DOMAIN position_weights

PlayerInit ==
    /\ TierIdle
    /\ NormIdle
    /\ TeamIdle
    /\ TopIdle
    /\ CompareIdle
    /\ ReportIdle
    /\ players_data = <<>>
    /\ columns \in ColumnSets
    /\ position \in PositionArgs
    /\ player_scores = <<>>
    /\ player_call = "pending"

\* the data supplier adds a record to the player table
AddPlayer(name, pos, stats) ==
    /\ player_call = "pending"
    /\ Len(players_data) < MaxPlayers
    /\ players_data' = Append(players_data, [name |-> name, position |-> pos, stats |-> stats])
    /\ UNCHANGED <<columns, position, player_scores, player_call, tier_vars, norm_vars, team_vars, top_vars, compare_vars, report_vars>>

CalculatePlayerScoresReturns ==
    /\ player_call = "pending"
    /\ ~PlayerScoresRaise(players_data, position)
    /\ player_scores' = CalculatePlayerScores(players_data, columns, position)
    /\ players_data' = CallerFrame(players_data, PositionPlayers(players_data, position))
    /\ player_call' = "returned"
    /\ UNCHANGED <<columns, position, tier_vars, norm_vars, team_vars, top_vars, compare_vars, report_vars>>

CalculatePlayerScoresRaises ==
    /\ player_call = "pending"
    /\ PlayerScoresRaise(players_data, position)
    /\ player_call' = "raised"
    /\ UNCHANGED <<players_data, columns, position, player_scores, tier_vars, norm_vars, team_vars, top_vars, compare_vars, report_vars>>

\* a group of players of the requested position, named by their row number
PlayerNext ==
    \/ \E stats \in [columns -> StatValues] :
          AddPlayer(Len(players_data) + 1, position, stats)
    \/ CalculatePlayerScoresReturns
    \/ CalculatePlayerScoresRaises

PlayerSpec == PlayerInit /\ [][PlayerNext]_vars

----------------------------------------------------------------------------
(* TierCalculator.calculate_team_scores *)

\* largest number of rows of the team table
MaxTeamRows == 3

\* self.weights of TierCalculator
team_weights ==
    [league_position |-> Frac(35, 100), goals_scored |-> Frac(15, 100),
     goals_conceded  |-> Frac(15, 100), possession   |-> Frac(10, 100),
     pass_accuracy   |-> Frac(10, 100), shots_per_game |-> Frac(8, 100),
     clean_sheets    |-> Frac(7, 100)]

\* the metrics normalized with higher-is-better, in the order of line 26
HigherMetrics == <<"goals_for", "possession_avg", "pass_accuracy", "shots_per_game", "clean_sheets">>

\* the metrics normalized with lower-is-better, in the order of line 35
LowerMetrics == <<"position", "goals_against">>

\* f'{metric}_norm'
NormName(metric) == metric \o "_norm"

\* frame[name] = col: the rows of the frame with the column added
WithColumn(rows, name, col) ==
    [i \in 1..Len(rows) |-> [rows[i] EXCEPT !.stats = (name :> col[i]) @@ @]]

\* normalized_data after the first k higher-is-better metrics
RECURSIVE WithHigherNorms(_, _, _)
WithHigherNorms(data, frame, k) ==
    IF k = 0 THEN frame
    ELSE WithColumn(WithHigherNorms(data, frame, k - 1), NormName(HigherMetrics[k]),
                    TeamNormHigher(MetricColumn(data, HigherMetrics[k])))

\* normalized_data after the first k lower-is-better metrics
RECURSIVE WithLowerNorms(_, _, _)
WithLowerNorms(data, frame, k) ==
    IF k = 0 THEN frame
    ELSE WithColumn(WithLowerNorms(data, frame, k - 1), NormName(LowerMetrics[k]),
                    TeamNormLower(MetricColumn(data, LowerMetrics[k])))

\* normalized_data at line 43
NormalizedTeamsData(data) ==
    WithLowerNorms(data, WithHigherNorms(data, data, Len(HigherMetrics)), Len(LowerMetrics))

\* the weighted score of one row of normalized_data (lines 45-53)
TeamScore(team) ==
    Add(Add(Add(Add(Add(Add(
        Mul(team.stats["position_norm"], team_weights.league_position),
        Mul(team.stats["goals_for_norm"], team_weights.goals_scored)),
        Mul(team.stats["goals_against_norm"], team_weights.goals_conceded)),
        Mul(team.stats["possession_avg_norm"], team_weights.possession)),
        Mul(team.stats["pass_accuracy_norm"], team_weights.pass_accuracy)),
        Mul(team.stats["shots_per_game_norm"], team_weights.shots_per_game)),
        Mul(team.stats["clean_sheets_norm"], team_weights.clean_sheets))

\* the dict scores after the first k rows of normalized_data
RECURSIVE TeamScoreRows(_, _)
TeamScoreRows(frame, k) ==
    IF k = 0 THEN <<>>
    ELSE DictPut(TeamScoreRows(frame, k - 1), frame[k].team, TeamScore(frame[k]))

\* calculate_team_scores(teams_data, standings)
CalculateTeamScores(data) ==
    LET normalized_data == NormalizedTeamsData(data)
    IN  TeamScoreRows(normalized_data, Len(normalized_data))

\* the stats of a team: goals scored g, the other higher-is-better metrics h,
\* the lower-is-better metrics l
TeamStats(g, h, l) ==
    [goals_for |-> g, possession_avg |-> h, pass_accuracy |-> h, shots_per_game |-> h,
     clean_sheets |-> h, position |-> l, goals_against |-> l]

\* the values of goals_for, and those of the other metrics
TeamGoalValues == {NaN, Num(0), Num(1), Num(2)}
TeamLevels == {Num(0), Num(2)}

\* the data supplier adds a record to the team table
AddTeam(name, stats) ==
    /\ team_call = "pending"
    /\ Len(teams_data) < MaxTeamRows
    /\ teams_data' = Append(teams_data, [team |-> name, stats |-> stats])
    /\ UNCHANGED <<scores, team_call, tier_vars, norm_vars, player_vars, top_vars, compare_vars, report_vars>>

CalculateTeamScoresReturns ==
    /\ team_call = "pending"
    /\ scores' = CalculateTeamScores(teams_data)
    /\ teams_data' = CallerFrame(teams_data, NormalizedTeamsData(teams_data))
    /\ team_call' = "returned"
    /\ UNCHANGED <<tier_vars, norm_vars, player_vars, top_vars, compare_vars, report_vars>>

\* a group of teams named by their row number
TeamNext ==
    \/ \E g \in TeamGoalValues, h \in TeamLevels, l \in TeamLevels :
          AddTeam(Len(teams_data) + 1, TeamStats(g, h, l))
    \/ CalculateTeamScoresReturns

TeamSpec == Init /\ [][TeamNext]_vars

----------------------------------------------------------------------------
(* PlayerAnalyzer.get_top_players_by_position *)

\* the values of top_n the callers pass
TopNs == {1, 2}

\* Series.map(player_scores) for one name: NaN when the dict has no such key
ScoreOfName(score_map, name) ==
    IF \E k \in 1..Len(score_map) : score_map[k].name = name
    THEN score_map[CHOOSE k \in 1..Len(score_map) : score_map[k].name = name].score
    ELSE NaN

\* position_players with the column performance_score (line 100)
WithPerformanceScore(rows, score_map) ==
    [i \in 1..Len(rows) |->
        [name |-> rows[i].name, position |-> rows[i].position, stats |-> rows[i].stats,
         performance_score |-> ScoreOfName(score_map, rows[i].name)]]

\* a row put into rows sorted by falling performance_score, after the rows
\* of equal score (keep='first')
InsertLargest(sorted, r) ==
    LET k == Cardinality({j \in 1..Len(sorted) : LessEq(r.performance_score, sorted[j].performance_score)})
    IN  SubSeq(sorted, 1, k) \o <<r>> \o SubSeq(sorted, k + 1, Len(sorted))

\* the first k rows sorted by falling performance_score
RECURSIVE SortLargest(_, _)
SortLargest(rows, k) ==
    IF k = 0 THEN <<>> ELSE InsertLargest(SortLargest(rows, k - 1), rows[k])

\* a variant that returns the last n rows of the sorted frame
NLargestTakesTail(rows, n) ==
    LET valid == SelectSeq(rows, LAMBDA r : ~IsNaN(r.performance_score))
        nans  == SelectSeq(rows, LAMBDA r : IsNaN(r.performance_score))
        all   == SortLargest(valid, Len(valid)) \o nans
    IN  SubSeq(all, (IF n < Len(all) THEN Len(all) - n ELSE 0) + 1, Len(all))

\* DataFrame.nlargest(n, 'performance_score'): rows with a NaN score come last
NLargest(rows, n) ==
    LET valid == SelectSeq(rows, LAMBDA r : ~IsNaN(r.performance_score))
        nans  == SelectSeq(rows, LAMBDA r : IsNaN(r.performance_score))
        all   == SortLargest(valid, Len(valid)) \o nans
    IN  SubSeq(all, 1, IF n < Len(all) THEN n ELSE Len(all))

\* position_players after line 100, the frame the handler works on
TopWorkingFrame(data, cols, pos) ==
    LET position_players == PositionPlayers(data, pos)
    IN  WithPerformanceScore(position_players, CalculatePlayerScores(position_players, cols, pos))

\* get_top_players_by_position(players_data, position, top_n), when it does not raise
GetTopPlayers(data, cols, pos, n) ==
    IF PositionPlayers(data, pos) = <<>> THEN <<>>
    ELSE NLargest(TopWorkingFrame(data, cols, pos), n)

GetTopPlayersReturns(n) ==
    /\ top_call = "pending"
    /\ ~PlayerScoresRaise(players_data, position)
    /\ top_n' = n
    /\ top_players' = GetTopPlayers(players_data, columns, position, n)
    /\ players_data' = CallerFrame(players_data, TopWorkingFrame(players_data, columns, position))
    /\ top_call' = "returned"
    /\ UNCHANGED <<columns, position, player_scores, player_call, tier_vars, norm_vars, team_vars, compare_vars, report_vars>>

\* the KeyError of calculate_player_scores reaches the caller
GetTopPlayersRaises(n) ==
    /\ top_call = "pending"
    /\ PlayerScoresRaise(players_data, position)
    /\ top_n' = n
    /\ top_call' = "raised"
    /\ UNCHANGED <<top_players, player_vars, tier_vars, norm_vars, team_vars, compare_vars, report_vars>>

----------------------------------------------------------------------------
(* PlayerAnalyzer.compare_players *)

\* dict.get(key, default) on the stats of a record
Get(stats, key, default) == IF key \in DOMAIN stats THEN stats[key] ELSE default

\* dict.get(name, 0) on a score map
ScoreOrZero(score_map, name) ==
    IF \E k \in 1..Len(score_map) : score_map[k].name = name
    THEN ScoreOfName(score_map, name)
    ELSE Num(0)

\* _extract_key_stats(player_data, position)
ExtractKeyStats(p, pos) ==
    LET base_stats == [k \in {"age", "market_value", "appearances"} |-> p.stats[k]]
    IN  IF pos \in {"Forward", "Midfielder"}
        THEN [k \in {"goals", "assists"} |-> p.stats[k]] @@ base_stats
        ELSE IF pos = "Defender"
        THEN ("clean_sheets" :> Get(p.stats, "clean_sheets", Num(0)))
                 @@ [k \in {"goals", "assists"} |-> p.stats[k]] @@ base_stats
        ELSE IF pos = "Goalkeeper"
        THEN ("saves" :> Get(p.stats, "saves", Num(0)))
                 @@ ("clean_sheets" :> Get(p.stats, "clean_sheets", Num(0))) @@ base_stats
        ELSE base_stats

\* one entry of key_differences: the player named and the difference, when
\* abs(p1[key] - p2[key]) >= threshold; lower tells whether the player with
\* the lower value is named
Difference(p1, p2, key, threshold, lower) ==
    LET a == p1.stats[key]
        b == p2.stats[key]
        diff == IF Less(Sub(a, b), Num(0)) THEN Sub(b, a) ELSE Sub(a, b)
        first == IF lower THEN Less(a, b) ELSE Less(b, a)
    IN  IF LessEq(Num(threshold), diff)
        THEN <<[metric |-> key, player |-> IF first THEN p1.name ELSE p2.name, difference |-> diff]>>
        ELSE <<>>

\* _identify_key_differences(player1, player2, position)
IdentifyKeyDifferences(p1, p2, pos) ==
    Difference(p1, p2, "age", 5, TRUE)
    \o Difference(p1, p2, "market_value", 20000000, FALSE)
    \o (IF pos \in {"Forward", "Midfielder"}
        THEN Difference(p1, p2, "goals", 5, FALSE) \o Difference(p1, p2, "assists", 3, FALSE)
        ELSE <<>>)

\* the scores compare_players computes: calculate_player_scores on the
\* temporary table of the two records
ComparisonScores(p1, p2) ==
    CalculatePlayerScores(<<p1, p2>>, DOMAIN p1.stats \cup DOMAIN p2.stats, p1.position)

\* a variant of the comparison mapping in which player1 wins a tie
ComparisonTiesToFirst(p1, p2) ==
    LET pos == p1.position
        player_scores_ == ComparisonScores(p1, p2)
        score1 == ScoreOrZero(player_scores_, p1.name)
        score2 == ScoreOrZero(player_scores_, p2.name)
    IN  [player1 |-> [name |-> p1.name, score |-> score1, stats |-> ExtractKeyStats(p1, pos)],
         player2 |-> [name |-> p2.name, score |-> score2, stats |-> ExtractKeyStats(p2, pos)],
         winner  |-> IF LessEq(score2, score1) THEN p1.name ELSE p2.name,
         key_differences |-> IdentifyKeyDifferences(p1, p2, pos)]

\* the comparison mapping built from line 207 on
Comparison(p1, p2) ==
    LET pos == p1.position
        player_scores_ == ComparisonScores(p1, p2)
        score1 == ScoreOrZero(player_scores_, p1.name)
        score2 == ScoreOrZero(player_scores_, p2.name)
    IN  [player1 |-> [name |-> p1.name, score |-> score1, stats |-> ExtractKeyStats(p1, pos)],
         player2 |-> [name |-> p2.name, score |-> score2, stats |-> ExtractKeyStats(p2, pos)],
         winner  |-> IF Less(score2, score1) THEN p1.name
                     ELSE IF Less(score1, score2) THEN p2.name
                     ELSE "Draw",
         key_differences |-> IdentifyKeyDifferences(p1, p2, pos)]

\* a variant without the test of line 204
SamePositionUnchecked(p1, p2) == TRUE

\* the test of line 204 passes
SamePosition(p1, p2) == p1.position = p2.position

\* the values of the records compare_players is called with
CompareNames == {"Carlos Garcia", "Miguel Lopez"}
CompareGoals == {NaN, Num(0), Num(6)}
CompareAges == {Num(20), Num(26)}

\* a record of the player table as the caller passes it
PlayerRecord(name, pos, goals, age) ==
    [name |-> name, position |-> pos,
     stats |-> [goals |-> goals, assists |-> Num(1), age |-> age,
                market_value |-> Num(30000000), appearances |-> Num(30)]]

\* the caller chooses the two players
ChoosePlayers(p1, p2) ==
    /\ compare_call = "pending"
    /\ player1 = <<>>
    /\ player1' = p1
    /\ player2' = p2
    /\ UNCHANGED <<comparison, compare_call, tier_vars, norm_vars, player_vars, team_vars, top_vars, report_vars>>

\* compare_players returns the error mapping: no score is computed
ComparePlayersRefuses ==
    /\ compare_call = "pending"
    /\ player1 # <<>>
    /\ ~SamePosition(player1, player2)
    /\ comparison' = [error |-> "Players must be in the same position for comparison"]
    /\ compare_call' = "returned"
    /\ UNCHANGED <<player1, player2, tier_vars, norm_vars, player_vars, team_vars, top_vars, report_vars>>

\* compare_players returns the comparison; its call of
\* calculate_player_scores on the temporary table has returned
ComparePlayersReturns ==
    /\ compare_call = "pending"
    /\ player1 # <<>>
    /\ SamePosition(player1, player2)
    /\ ~PlayerScoresRaise(<<player1, player2>>, player1.position)
    /\ players_data' = <<player1, player2>>
    /\ columns' = DOMAIN player1.stats \cup DOMAIN player2.stats
    /\ position' = player1.position
    /\ player_scores' = ComparisonScores(player1, player2)
    /\ player_call' = "returned"
    /\ comparison' = Comparison(player1, player2)
    /\ compare_call' = "returned"
    /\ UNCHANGED <<player1, player2, tier_vars, norm_vars, team_vars, top_vars, report_vars>>

\* the KeyError of calculate_player_scores reaches the caller
ComparePlayersRaises ==
    /\ compare_call = "pending"
    /\ player1 # <<>>
    /\ SamePosition(player1, player2)
    /\ PlayerScoresRaise(<<player1, player2>>, player1.position)
    /\ players_data' = <<player1, player2>>
    /\ columns' = DOMAIN player1.stats \cup DOMAIN player2.stats
    /\ position' = player1.position
    /\ player_call' = "raised"
    /\ compare_call' = "raised"
    /\ UNCHANGED <<player1, player2, comparison, player_scores, tier_vars, norm_vars, team_vars, top_vars, report_vars>>

CompareNext ==
    \/ \E n1, n2 \in CompareNames, pos1, pos2 \in PositionArgs,
          g1, g2 \in CompareGoals, a1, a2 \in CompareAges :
          ChoosePlayers(PlayerRecord(n1, pos1, g1, a1), PlayerRecord(n2, pos2, g2, a2))
    \/ ComparePlayersRefuses
    \/ ComparePlayersReturns
    \/ ComparePlayersRaises

CompareSpec == Init /\ [][CompareNext]_vars

----------------------------------------------------------------------------
(* A run of the app renders one page: it works on the team table or on the
   player table *)

\* the positions of the records and of the requests of the player page
AppPositions == {"Forward", "Winger"}

\* the columns of the player table of the pages
AppColumns == {"goals", "assists"}

\* the score map in the integer unit of the tier model (half points): the
\* scores of tables with values in TeamLevels are multiples of 1/2
HalfPoints(score_map) ==
    [k \in 1..Len(score_map) |->
        [team |-> score_map[k].name, score |-> (2 * score_map[k].score[1]) \div score_map[k].score[2]]]

\* the tier page hands the score map to assign_tiers
PassScores ==
    /\ team_call = "returned"
    /\ tier_call = "pending"
    /\ team_scores = <<>>
    /\ scores # <<>>
    /\ team_scores' = HalfPoints(scores)
    /\ UNCHANGED <<tiers, tier_call, norm_vars, player_vars, team_vars, top_vars, compare_vars, report_vars>>

\* the run renders the tier page, or has not chosen yet
OnTierPage ==
    /\ players_data = <<>>
    /\ player_call = "pending"
    /\ top_call = "pending"

\* the run renders the player page, or has not chosen yet
OnPlayerPage ==
    /\ teams_data = <<>>
    /\ team_call = "pending"

AppInit ==
    /\ TierIdle
    /\ NormIdle
    /\ TeamIdle
    /\ TopIdle
    /\ CompareIdle
    /\ ReportIdle
    /\ players_data = <<>>
    /\ columns = AppColumns
    /\ position \in AppPositions
    /\ player_scores = <<>>
    /\ player_call = "pending"

AppNext ==
    \/ /\ OnTierPage
       /\ \/ \E g \in TeamLevels, h \in TeamLevels, l \in TeamLevels :
                AddTeam(Len(teams_data) + 1, TeamStats(g, h, l))
          \/ CalculateTeamScoresReturns
          \/ PassScores
          \/ /\ team_call = "returned"
             /\ Len(team_scores) = Len(scores)
             /\ \/ AssignTiersReturns
                \/ AssignTiersRaises
    \/ /\ OnPlayerPage
       /\ \/ /\ top_call = "pending"
             /\ \E pos \in AppPositions, g \in StatValues :
                   AddPlayer(Len(players_data) + 1, pos, [c \in AppColumns |-> IF c = "goals" THEN g ELSE Num(0)])
          \/ CalculatePlayerScoresReturns
          \/ CalculatePlayerScoresRaises
          \/ \E n \in TopNs : GetTopPlayersReturns(n)
          \/ \E n \in TopNs : GetTopPlayersRaises(n)

AppSpec == AppInit /\ [][AppNext]_vars

----------------------------------------------------------------------------
(* Tables whose records may share a name *)

\* the names of the teams of such a table
TeamNames == {"Barcelona", "Real Madrid"}

\* the goals scored of its teams
TeamGoals == {Num(0), Num(1), Num(2)}

NamesNext ==
    \/ /\ OnTierPage
       /\ \/ \E name \in TeamNames, g \in TeamGoals :
                AddTeam(name, TeamStats(g, Num(0), Num(0)))
          \/ CalculateTeamScoresReturns
    \/ /\ OnPlayerPage
       /\ \/ \E name \in CompareNames, g \in StatValues :
                AddPlayer(name, position, [c \in AppColumns |-> IF c = "goals" THEN g ELSE Num(0)])
          \/ CalculatePlayerScoresReturns

NamesInit ==
    /\ AppInit
    /\ position = "Forward"

NamesSpec == NamesInit /\ [][NamesNext]_vars

----------------------------------------------------------------------------
(* The tier page on score maps of fractions: calculate_team_scores followed
   by assign_tiers, with scores that may be NaN *)

\* largest number of rows of the league table of the tier page
MaxLeague == 4

Reverse(s) == [i \in 1..Len(s) |-> s[Len(s) + 1 - i]]

\* x[1] < y[1] on the float keys of two items
KeyLess(x, y) == Less(x.score, y.score)

\* count_run of list.sort: the run at the start of s is strictly descending
RunDescending(s) == Len(s) >= 2 /\ KeyLess(s[2], s[1])

\* count_run of list.sort: the length of the run at the start of s
RunLength(s) ==
    IF Len(s) < 2 THEN Len(s)
    ELSE LET stops == {i \in 3..Len(s) :
                          IF RunDescending(s) THEN ~KeyLess(s[i], s[i - 1])
                          ELSE KeyLess(s[i], s[i - 1])}
         IN  IF stops = {} THEN Len(s) ELSE Min(stops) - 1

\* binarysort of list.sort: the 0-based place of pivot in s[l..r-1]
RECURSIVE BinaryPlace(_, _, _, _)
BinaryPlace(s, l, r, pivot) ==
    IF l >= r THEN l
    ELSE LET p == l + ((r - l) \div 2)
         IN  IF KeyLess(pivot, s[p + 1]) THEN BinaryPlace(s, l, p, pivot)
             ELSE BinaryPlace(s, p + 1, r, pivot)

\* binarysort of list.sort: s[0..start-1] is sorted, the rest is inserted
RECURSIVE BinarySort(_, _)
BinarySort(s, start) ==
    IF start >= Len(s) THEN s
    ELSE LET pivot == s[start + 1]
             l     == BinaryPlace(s, 0, start, pivot)
         IN  BinarySort(SubSeq(s, 1, l) \o <<pivot>> \o SubSeq(s, l + 1, start)
                            \o SubSeq(s, start + 2, Len(s)),
                        start + 1)

\* sorted(team_scores.items(), key=lambda x: x[1], reverse=True) of CPython
\* on fewer than 64 items: the list is reversed, its first run is found (and
\* reversed when descending), the other items are inserted by binary search
\* with <, and the list is reversed again. With NaN keys < is no order and
\* the result is whatever these steps give.
SortedItems(items) ==
    IF Len(items) < 2 THEN items
    ELSE LET rev == Reverse(items)
             run == RunLength(rev)
             prepared == IF RunDescending(rev)
                         THEN Reverse(SubSeq(rev, 1, run)) \o SubSeq(rev, run + 1, Len(rev))
                         ELSE rev
         IN  Reverse(BinarySort(prepared, run))

\* np.percentile(scores_list, q) with linear interpolation: NaN when a score
\* is NaN
PercentileOfScores(values, q) ==
    IF \E i \in 1..Len(values) : IsNaN(values[i]) THEN NaN
    ELSE LET desc == SortedItems([i \in 1..Len(values) |-> [name |-> i, score |-> values[i]]])
             n    == Len(values)
             at(i) == desc[n + 1 - i].score
             pos  == (n - 1) * q
             lo   == (pos \div 100) + 1
             hi   == IF lo < n THEN lo + 1 ELSE n
         IN  Add(at(lo), Mul(Sub(at(hi), at(lo)), Frac(pos % 100, 100)))

\* the first-pass labels of lines 81-91 on fractions
FirstPassOfScores(sorted) ==
    LET scores_list == [i \in 1..Len(sorted) |-> sorted[i].score]
        label(score) ==
            IF LessEq(PercentileOfScores(scores_list, 85), score) THEN "S"
            ELSE IF LessEq(PercentileOfScores(scores_list, 65), score) THEN "A"
            ELSE IF LessEq(PercentileOfScores(scores_list, 40), score) THEN "B"
            ELSE IF LessEq(PercentileOfScores(scores_list, 20), score) THEN "C"
            ELSE "D"
    IN  [name \in {sorted[i].name : i \in 1..Len(sorted)} |->
            label(ScoreOfName(sorted, name))]

\* assign_tiers(team_scores) on a non-empty map of fractions
AssignTiersOfScores(score_map) ==
    LET sorted == SortedItems(score_map)
    IN  BalanceTiers(FirstPassOfScores(sorted),
                     [i \in 1..Len(sorted) |-> [team |-> sorted[i].name, score |-> sorted[i].score]])

\* the data supplier adds a record to the league table
AddLeagueTeam(name, stats) ==
    /\ team_call = "pending"
    /\ Len(teams_data) < MaxLeague
    /\ teams_data' = Append(teams_data, [team |-> name, stats |-> stats])
    /\ UNCHANGED <<scores, team_call, tier_vars, norm_vars, player_vars, top_vars, compare_vars, report_vars>>

\* line 83 of app.py: assign_tiers(team_scores) returns
AssignTiersOfScoresReturns ==
    /\ team_call = "returned"
    /\ tier_call = "pending"
    /\ team_scores' = scores
    /\ tiers' = IF scores = <<>> THEN BalanceTiers(<<>>, <<>>) ELSE AssignTiersOfScores(scores)
    /\ tier_call' = "returned"
    /\ UNCHANGED <<norm_vars, player_vars, team_vars, top_vars, compare_vars, report_vars>>

\* np.percentile of an empty list raises IndexError in numpy >= 1.22
AssignTiersOfScoresRaises ==
    /\ team_call = "returned"
    /\ tier_call = "pending"
    /\ scores = <<>>
    /\ team_scores' = scores
    /\ tier_call' = "raised"
    /\ UNCHANGED <<tiers, norm_vars, player_vars, team_vars, top_vars, compare_vars, report_vars>>

TierPageNext ==
    \/ \E g \in TeamGoalValues : AddLeagueTeam(Len(teams_data) + 1, TeamStats(g, Num(0), Num(0)))
    \/ CalculateTeamScoresReturns
    \/ AssignTiersOfScoresReturns
    \/ AssignTiersOfScoresRaises

TierPageSpec == Init /\ [][TierPageNext]_vars

----------------------------------------------------------------------------
(* PlayerAnalyzer.analyze_team_squad *)

\* the positions and the goals of the records of a squad table
SquadPositions == {"Forward", "Defender", "Winger"}
SquadGoals == {Num(0), Num(2)}

\* a record of the player table with its team
SquadRecord(name, team, pos, goals) ==
    [name |-> name, team |-> team, position |-> pos,
     stats |-> [goals |-> goals, assists |-> Num(1), age |-> Num(24),
                market_value |-> Num(30000000), appearances |-> Num(30)]]

\* players_data[players_data['team'] == team_name]
TeamPlayers(data, team) == SelectSeq(data, LAMBDA r : r.team = team)

\* the values of a column of the rows
ColumnOf(rows, col) == [i \in 1..Len(rows) |-> rows[i].stats[col]]

\* team_players['position'].unique(), as a set
PositionsOf(rows) == {rows[i].position : i \in 1..Len(rows)}

\* a variant of max that keeps the last of the items of highest score
RECURSIVE MaxItemLastOnTies(_, _)
MaxItemLastOnTies(items, k) ==
    IF k = 1 THEN items[1]
    ELSE LET best == MaxItemLastOnTies(items, k - 1)
         IN  IF LessEq(best.score, items[k].score) THEN items[k] ELSE best

\* max(player_scores.items(), key=lambda x: x[1]) over the first k items:
\* an item replaces the best so far when its score is greater
RECURSIVE MaxItem(_, _)
MaxItem(items, k) ==
    IF k = 1 THEN items[1]
    ELSE LET best == MaxItem(items, k - 1)
         IN  IF Less(best.score, items[k].score) THEN items[k] ELSE best

\* analysis['position_breakdown']
PositionBreakdown(team_players) ==
    [pos \in PositionsOf(team_players) |->
        LET pos_players == PositionPlayers(team_players, pos)
        IN  [count |-> Len(pos_players),
             avg_age |-> MeanSkipNa(ColumnOf(pos_players, "age")),
             total_market_value |-> SumSkipNa(ColumnOf(pos_players, "market_value")),
             total_goals |-> SumSkipNa(ColumnOf(pos_players, "goals")),
             total_assists |-> SumSkipNa(ColumnOf(pos_players, "assists"))]]

\* analysis['top_performers']: pos_players is never empty, so neither is
\* player_scores
TopPerformers(team_players) ==
    [pos \in PositionsOf(team_players) |->
        LET pos_players   == PositionPlayers(team_players, pos)
            player_scores_ == CalculatePlayerScores(pos_players, DOMAIN pos_players[1].stats, pos)
            top_player    == MaxItem(player_scores_, Len(player_scores_))
        IN  [name |-> top_player.name, score |-> top_player.score]]

\* number of the rows of a position: position_counts.get(pos, 0)
PositionCount(team_players, pos) == Len(PositionPlayers(team_players, pos))

\* strengths of _analyze_squad_strengths_weaknesses
SquadStrengths(team_players) ==
    LET avg_age   == MeanSkipNa(ColumnOf(team_players, "age"))
        avg_value == MeanSkipNa(ColumnOf(team_players, "market_value"))
        forwards  == PositionPlayers(team_players, "Forward")
        forward_goals == SumSkipNa(ColumnOf(forwards, "goals"))
        total_goals   == SumSkipNa(ColumnOf(team_players, "goals"))
    IN  (IF Less(avg_age, Num(25)) THEN <<"Young squad with potential for growth">>
         ELSE IF Less(Num(30), avg_age) THEN <<>>
         ELSE <<"Good age balance in squad">>)
        \o (IF Less(Num(30000000), avg_value) THEN <<"High-value players indicating quality">> ELSE <<>>)
        \o (IF forwards # <<>> /\ Less(Num(0), total_goals)
               /\ ~Less(Frac(7, 10), Div(forward_goals, total_goals))
               /\ Less(Div(forward_goals, total_goals), Frac(5, 10))
            THEN <<"Goals spread across different positions">> ELSE <<>>)

\* weaknesses of _analyze_squad_strengths_weaknesses
SquadWeaknesses(team_players) ==
    LET avg_age   == MeanSkipNa(ColumnOf(team_players, "age"))
        avg_value == MeanSkipNa(ColumnOf(team_players, "market_value"))
        forwards  == PositionPlayers(team_players, "Forward")
        forward_goals == SumSkipNa(ColumnOf(forwards, "goals"))
        total_goals   == SumSkipNa(ColumnOf(team_players, "goals"))
    IN  (IF ~Less(avg_age, Num(25)) /\ Less(Num(30), avg_age)
         THEN <<"Aging squad may need rejuvenation">> ELSE <<>>)
        \o (IF ~Less(Num(30000000), avg_value) /\ Less(avg_value, Num(10000000))
            THEN <<"Limited market value may indicate quality concerns">> ELSE <<>>)
        \o (IF forwards # <<>> /\ Less(Num(0), total_goals)
               /\ Less(Frac(7, 10), Div(forward_goals, total_goals))
            THEN <<"Over-reliance on forwards for goals">> ELSE <<>>)
        \o (IF PositionCount(team_players, "Goalkeeper") < 2 THEN <<"Limited goalkeeper options">> ELSE <<>>)
        \o (IF PositionCount(team_players, "Defender") < 6 THEN <<"Thin defensive options">> ELSE <<>>)
        \o (IF PositionCount(team_players, "Midfielder") < 6 THEN <<"Limited midfield depth">> ELSE <<>>)
        \o (IF PositionCount(team_players, "Forward") < 4 THEN <<"Few attacking options">> ELSE <<>>)

\* analyze_team_squad(players_data, team_name), when it does not raise
AnalyzeTeamSquad(data, team) ==
    LET team_players == TeamPlayers(data, team) IN
    IF team_players = <<>> THEN <<>>
    ELSE [squad_size |-> Len(team_players),
          average_age |-> MeanSkipNa(ColumnOf(team_players, "age")),
          total_market_value |-> SumSkipNa(ColumnOf(team_players, "market_value")),
          average_market_value |-> MeanSkipNa(ColumnOf(team_players, "market_value")),
          total_goals |-> SumSkipNa(ColumnOf(team_players, "goals")),
          total_assists |-> SumSkipNa(ColumnOf(team_players, "assists")),
          position_breakdown |-> PositionBreakdown(team_players),
          top_performers |-> TopPerformers(team_players),
          squad_strengths |-> SquadStrengths(team_players),
          squad_weaknesses |-> SquadWeaknesses(team_players)]

\* analyze_team_squad raises: calculate_player_scores raises KeyError for a
\* position of the squad that has no weight map
AnalyzeTeamSquadRaise(data, team) ==
    \E pos \in PositionsOf(TeamPlayers(data, team)) :
        PlayerScoresRaise(PositionPlayers(TeamPlayers(data, team), pos), pos)

\* the data supplier adds a record to the player table
AddSquadPlayer(record) ==
    /\ squad_call = "pending"
    /\ Len(players_data) < MaxPlayers
    /\ players_data' = Append(players_data, record)
    /\ UNCHANGED <<columns, position, player_scores, player_call, tier_vars, norm_vars, team_vars, top_vars, compare_vars, report_vars>>

AnalyzeTeamSquadReturns(team) ==
    /\ squad_call = "pending"
    /\ ~AnalyzeTeamSquadRaise(players_data, team)
    /\ team_name' = team
    /\ squad' = AnalyzeTeamSquad(players_data, team)
    /\ squad_call' = "returned"
    /\ UNCHANGED <<analysis, analysis_call, tier_vars, norm_vars, player_vars, team_vars, top_vars, compare_vars>>

AnalyzeTeamSquadRaises(team) ==
    /\ squad_call = "pending"
    /\ AnalyzeTeamSquadRaise(players_data, team)
    /\ team_name' = team
    /\ squad_call' = "raised"
    /\ UNCHANGED <<squad, analysis, analysis_call, tier_vars, norm_vars, player_vars, team_vars, top_vars, compare_vars>>

\* players named by their row number
SquadNext ==
    \/ \E team \in TeamNames, pos \in SquadPositions, g \in SquadGoals :
          AddSquadPlayer(SquadRecord(Len(players_data) + 1, team, pos, g))
    \/ \E team \in TeamNames : AnalyzeTeamSquadReturns(team)
    \/ \E team \in TeamNames : AnalyzeTeamSquadRaises(team)

SquadSpec == Init /\ [][SquadNext]_vars

----------------------------------------------------------------------------
(* Properties of assign_tiers *)

\* the keys of the score map
Entities == {team_scores[i].team : i \in 1..Len(team_scores)}

\* the score of an entity of the score map
ScoreOf(name) == team_scores[CHOOSE i \in 1..Len(team_scores) : team_scores[i].team = name].score

\* the entities the result puts in tier t
InTier(t) == {n \in DOMAIN tiers : tiers[n] = t}

\* 1-based position of every entity in the descending walk order
WalkRank ==
    LET sorted == SortedTeams(team_scores)
    IN  [n \in Entities |-> CHOOSE i \in 1..Len(sorted) : sorted[i].team = n]

\* C1: whatever the size of the score map, the returned assignment has exactly
\* the key set of the input and every value is one of S, A, B, C, D.
C1_CoversEveryEntity ==
    tier_call = "returned" =>
        /\ DOMAIN tiers = Entities
        /\ \A n \in DOMAIN tiers : tiers[n] \in TierNames

\* C2: a score map of exactly 20 entities gives 3 in S, 4 in A, 5 in B, 5 in C
\* and 3 in D, whatever the scores and the ties.
C2_TwentyMatchTargets ==
    (tier_call = "returned" /\ Len(team_scores) = 20) =>
        /\ Cardinality(InTier("S")) = 3
        /\ Cardinality(InTier("A")) = 4
        /\ Cardinality(InTier("B")) = 5
        /\ Cardinality(InTier("C")) = 5
        /\ Cardinality(InTier("D")) = 3

C2_Witness ==
    /\ tier_call = "returned"
    /\ Len(team_scores) = 20
    /\ Runs(team_scores) = 3
    /\ \E a \in InTier("S"), b \in InTier("A") : ScoreOf(a) = ScoreOf(b)

C4_EmptyReturnsEmpty ==
    team_scores = <<>> =>
        /\ tier_call # "raised"
        /\ tier_call = "returned" => tiers = <<>>

TierOfRank(k) ==
    IF k <= 3 THEN "S"
    ELSE IF k <= 7 THEN "A"
    ELSE IF k <= 12 THEN "B"
    ELSE IF k <= 17 THEN "C"
    ELSE "D"

\* C20: with at most 20 entities, the entity at rank k of the stable
\* descending order gets S for k <= 3, A for 4..7, B for 8..12, C for 13..17
\* and D for 18..20; a better tier is never short of its target while a worse
\* tier holds an entity.
C20_RankDecidesTier ==
    (tier_call = "returned" /\ Len(team_scores) <= 20) =>
        LET rank == WalkRank IN
        /\ DOMAIN tiers = Entities
        /\ \A n \in Entities : tiers[n] = TierOfRank(rank[n])
        /\ \A i \in 1..Len(tier_order), j \in 1..Len(tier_order) :
              (i < j /\ InTier(tier_order[j]) # {}) =>
                  Cardinality(InTier(tier_order[i])) = ideal_distribution[tier_order[i]]

\* 13 entities given in ascending score order: B is full, C holds one
C20_Witness ==
    /\ tier_call = "returned"
    /\ Len(team_scores) = 13
    /\ team_scores[1].score < team_scores[13].score
    /\ Cardinality(InTier("C")) = 1
    /\ tiers[team_scores[13].team] = "S"

----------------------------------------------------------------------------
(* Properties of the normalizers *)

\* the numbers of the column are not all equal
NonDegenerate(col) == \E i \in Present(col), j \in Present(col) : NotEqual(col[i], col[j])

\* the column holds a number and all its numbers are equal
Degenerate(col) == Present(col) # {} /\ ~NonDegenerate(col)

\* C6: over a group whose raw values are not all equal, the team and the
\* player normalizer of a higher-is-better metric give
\* (raw - min) / (max - min) * 100: the minimum maps to 0, the maximum to 100,
\* every value lies in [0, 100], also when the maximum is zero or negative.
C6_HigherIsBetterMinMax ==
    (norm_call \in {"team_higher", "player"} /\ NonDegenerate(column)) =>
        LET lo == ColMin(column)
            hi == ColMax(column)
        IN  \A i \in Present(column) :
                /\ Equal(Mul(normalized[i], Sub(hi, lo)), Mul(Sub(column[i], lo), Num(100)))
                /\ Equal(column[i], lo) => normalized[i] = Num(0)
                /\ Equal(column[i], hi) => normalized[i] = Num(100)
                /\ LessEq(Num(0), normalized[i]) /\ LessEq(normalized[i], Num(100))

\* C7: over a group whose raw values are not all equal, a lower-is-better team
\* metric is normalized as (max - raw) / (max - min) * 100: the lowest raw value
\* gets 100, the highest gets 0, and a lower raw value never gets a lower
\* normalized value.
C7_LowerIsBetterInverts ==
    (norm_call = "team_lower" /\ NonDegenerate(column)) =>
        LET lo == ColMin(column)
            hi == ColMax(column)
        IN  /\ \A i \in Present(column) :
                  /\ Equal(Mul(normalized[i], Sub(hi, lo)), Mul(Sub(hi, column[i]), Num(100)))
                  /\ Equal(column[i], lo) => normalized[i] = Num(100)
                  /\ Equal(column[i], hi) => normalized[i] = Num(0)
            /\ \A i \in Present(column), j \in Present(column) :
                  Less(column[i], column[j]) => ~Less(normalized[i], normalized[j])

\* three different raw values, normalized to 100, to 0 and strictly between
C7_Witness ==
    /\ norm_call = "team_lower"
    /\ \E i \in Present(column), j \in Present(column), k \in Present(column) :
          /\ Less(column[i], column[j]) /\ Less(column[j], column[k])
          /\ normalized[i] = Num(100)
          /\ normalized[k] = Num(0)
          /\ Less(Num(0), normalized[j]) /\ Less(normalized[j], Num(100))

\* C8: when all raw values of the group are equal (a single entity included),
\* every entity's normalized value is exactly 50, for both polarities and in
\* both normalizers.
C8_DegenerateGroupIsFifty ==
    (norm_call # "pending" /\ Degenerate(column)) =>
        \A i \in 1..Len(column) : normalized[i] = Num(50)

C8_Witness ==
    /\ norm_call = "team_higher"
    /\ Degenerate(column)
    /\ Cardinality(Present(column)) >= 2
    /\ \A i \in 1..Len(column) : normalized[i] = Num(50)

----------------------------------------------------------------------------
(* Properties of calculate_player_scores *)

\* the weighted metrics whose raw value row i holds
PresentMetrics(rows, cols, weights, i) ==
    {k \in 1..Len(weights) : weights[k][1] \in cols /\ ~IsNaN(rows[i].stats[weights[k][1]])}

\* sum of f[k] over a finite set of indices
RECURSIVE SumOver(_, _)
SumOver(f, S) ==
    IF S = {} THEN Num(0)
    ELSE LET k == CHOOSE x \in S : TRUE IN Add(f[k], SumOver(f, S \ {k}))

\* C9: a weighted metric whose raw value is missing for a player adds nothing
\* to that player's accumulated sum and nothing to its total weight used,
\* whatever the values of the other players; the score is the weighted average
\* of the player's present metrics only.
C9_MissingMetricSkipped ==
    player_call = "returned" =>
        LET rows    == PositionPlayers(players_data, position)
            weights == WeightsFor(position)
            norms   == NormalizePositionMetrics(rows, columns, position)
        IN  \A i \in 1..Len(rows) :
                LET used == PresentMetrics(rows, columns, weights, i)
                    acc  == Accumulate(norms, weights, i, Len(weights))
                    sum  == SumOver([k \in used |-> Mul(norms[weights[k][1]][i], weights[k][2])], used)
                    wsum == SumOver([k \in used |-> weights[k][2]], used)
                IN  /\ acc.score = sum
                    /\ acc.total_weight = wsum
                    /\ used # {} => player_scores[i].score = Mul(Div(sum, wsum), Num(100))

\* C10: every value of the score map returned by calculate_player_scores lies
\* in [0, 100].
C10_PlayerScoreInRange ==
    player_call = "returned" =>
        \A k \in 1..Len(player_scores) :
            /\ LessEq(Num(0), player_scores[k].score)
            /\ LessEq(player_scores[k].score, Num(100))

\* the weighted metrics that have a non-NaN normalized value for row i
\* (the test of line 59)
UsedMetrics(norms, weights, i) ==
    {k \in 1..Len(weights) : weights[k][1] \in DOMAIN norms /\ ~IsNaN(norms[weights[k][1]][i])}

\* C11: a player with at least one present weighted metric (one that has a
\* normalized value for the player) gets exactly
\* (sum of weight * normalized value) / (sum of those weights) * 100.
C11_ScoreIsMeanTimesHundred ==
    player_call = "returned" =>
        LET rows    == PositionPlayers(players_data, position)
            weights == WeightsFor(position)
            norms   == NormalizePositionMetrics(rows, columns, position)
        IN  \A i \in 1..Len(rows) :
                LET used == UsedMetrics(norms, weights, i)
                    sum  == SumOver([k \in used |-> Mul(norms[weights[k][1]][i], weights[k][2])], used)
                    wsum == SumOver([k \in used |-> weights[k][2]], used)
                IN  used # {} =>
                        /\ player_scores[i].name = rows[i].name
                        /\ player_scores[i].score = Mul(Div(sum, wsum), Num(100))

\* a player scored on one of two weighted columns, above 100
C11_Witness ==
    /\ player_call = "returned"
    /\ LET rows    == PositionPlayers(players_data, position)
           weights == WeightsFor(position)
           norms   == NormalizePositionMetrics(rows, columns, position)
       IN  \E i \in 1..Len(rows) :
              /\ Cardinality(DOMAIN norms) = 2
              /\ Cardinality(UsedMetrics(norms, weights, i)) = 1
              /\ Less(Num(100), player_scores[i].score)
              /\ \E j \in 1..Len(rows) : Cardinality(UsedMetrics(norms, weights, j)) = 2

\* the table without its row i
RemoveRow(rows, i) == SubSeq(rows, 1, i - 1) \o SubSeq(rows, i + 1, Len(rows))

\* C12: a player for whom no weighted metric is present (total weight used is
\* 0) gets score exactly 0, the call for a position with a weight map does not
\* raise, and every other player gets the score it gets when that player's
\* record is not in the group.
C12_NoOverlapScoresZero ==
    /\ player_call = "raised" => position \notin DOMAIN position_weights
    /\ player_call = "returned" =>
        LET rows    == PositionPlayers(players_data, position)
            weights == WeightsFor(position)
            norms   == NormalizePositionMetrics(rows, columns, position)
        IN  \A i \in 1..Len(rows) :
                UsedMetrics(norms, weights, i) = {} =>
                    /\ player_scores[i] = [name |-> rows[i].name, score |-> Num(0)]
                    /\ RemoveRow(player_scores, i)
                          = CalculatePlayerScores(RemoveRow(rows, i), columns, position)

\* a player without any normalized value next to players with different scores
C12_Witness ==
    /\ player_call = "returned"
    /\ position \in DOMAIN position_weights
    /\ LET rows    == PositionPlayers(players_data, position)
           weights == WeightsFor(position)
           norms   == NormalizePositionMetrics(rows, columns, position)
       IN  /\ DOMAIN norms # {}
           /\ \E i \in 1..Len(rows) :
                 /\ UsedMetrics(norms, weights, i) = {}
                 /\ player_scores[i].score = Num(0)
                 /\ \E j \in 1..Len(rows), k \in 1..Len(rows) :
                       Less(player_scores[j].score, player_scores[k].score)

\* C14: a call for a position without an entry in position_weights, with
\* players of that position in the table, does not fail: it returns one score
\* per player, computed with the Forward weight map.
C14_UnknownPositionFallsBack ==
    (/\ position \notin DOMAIN position_weights
     /\ PositionPlayers(players_data, position) # <<>>
     /\ player_call # "pending") =>
        /\ player_call = "returned"
        /\ Len(player_scores) = Len(PositionPlayers(players_data, position))

----------------------------------------------------------------------------
(* Properties of calculate_team_scores *)

\* row i holds the best value of every metric and no metric is degenerate
BestOnEveryMetric(data, i) ==
    /\ \A k \in 1..Len(HigherMetrics) :
          LET col == MetricColumn(data, HigherMetrics[k])
          IN  NonDegenerate(col) /\ Equal(col[i], ColMax(col))
    /\ \A k \in 1..Len(LowerMetrics) :
          LET col == MetricColumn(data, LowerMetrics[k])
          IN  NonDegenerate(col) /\ Equal(col[i], ColMin(col))

\* row i holds the worst value of every metric and no metric is degenerate
WorstOnEveryMetric(data, i) ==
    /\ \A k \in 1..Len(HigherMetrics) :
          LET col == MetricColumn(data, HigherMetrics[k])
          IN  NonDegenerate(col) /\ Equal(col[i], ColMin(col))
    /\ \A k \in 1..Len(LowerMetrics) :
          LET col == MetricColumn(data, LowerMetrics[k])
          IN  NonDegenerate(col) /\ Equal(col[i], ColMax(col))

\* C19: every value of the score map returned by calculate_team_scores lies in
\* [0, 100]; a team that is best on every metric scores 100 and a team that is
\* worst on every metric scores 0.
C19_TeamScoreInRange ==
    team_call = "returned" =>
        \A i \in 1..Len(scores) :
            /\ LessEq(Num(0), scores[i].score) /\ LessEq(scores[i].score, Num(100))
            /\ BestOnEveryMetric(teams_data, i) => scores[i].score = Num(100)
            /\ WorstOnEveryMetric(teams_data, i) => scores[i].score = Num(0)

----------------------------------------------------------------------------
(* Properties of the pages *)

\* the player table holds no record of the requested position
EmptyGroup == \A i \in 1..Len(players_data) : players_data[i].position # position

\* C13: an empty input group gives an empty score map and never an
\* exception: calculate_player_scores returns {} for an empty table and for a
\* table without a player of the requested position, calculate_team_scores
\* returns {} for an empty team table.
C13_EmptyGroupGivesEmptyMap ==
    /\ EmptyGroup =>
          /\ player_call # "raised"
          /\ ~PlayerScoresRaise(players_data, position)
          /\ player_call = "returned" => player_scores = <<>>
    /\ (teams_data = <<>> /\ team_call = "returned") => scores = <<>>

\* both operations returned on an empty group: a table of records of another
\* position (requested position with and without a weight map), and an empty
\* team table is reachable in the same specification
C13_Witness ==
    /\ player_call = "returned"
    /\ Len(players_data) >= 2
    /\ EmptyGroup
    /\ position \notin DOMAIN position_weights
    /\ player_scores = <<>>

\* the records of position pos, selected by row
OnlyPosition(data, pos) ==
    LET keep == {i \in 1..Len(data) : data[i].position = pos}
        RECURSIVE Take(_)
        Take(k) == IF k = 0 THEN <<>>
                   ELSE IF k \in keep THEN Append(Take(k - 1), data[k]) ELSE Take(k - 1)
    IN  Take(Len(data))

\* C15: normalization is category-local: the score map returned for position
\* P on a table equals the one returned on the table's records of position P
\* alone, so two tables that differ only in records of other positions give
\* identical score maps.
C15_NormalizationIsCategoryLocal ==
    player_call = "returned" =>
        player_scores = CalculatePlayerScores(OnlyPosition(players_data, position), columns, position)

\* scores returned for two players of the position whose goals are equal,
\* on a table with a record of another position whose goals differ from theirs
C15_Witness ==
    /\ player_call = "returned"
    /\ Len(player_scores) = 2
    /\ \E i, j \in 1..Len(players_data) :
          /\ players_data[i].position = position
          /\ players_data[j].position # position
          /\ players_data[i].stats["goals"] = Num(0)
          /\ players_data[j].stats["goals"] = Num(2)
    /\ \A i \in 1..Len(players_data) :
          players_data[i].position = position => players_data[i].stats["goals"] = Num(0)

\* C18: no scoring operation modifies its input: when calculate_team_scores,
\* calculate_player_scores, get_top_players_by_position or assign_tiers
\* returns, the input table or score map has the records, columns and values
\* it had before the call.
C18_InputsNotModified ==
    [][/\ team_call' # team_call => teams_data' = teams_data
       /\ player_call' # player_call => (players_data' = players_data /\ columns' = columns)
       /\ top_call' # top_call => (players_data' = players_data /\ columns' = columns)
       /\ tier_call' # tier_call => team_scores' = team_scores]_vars

\* calculate_player_scores and get_top_players_by_position have both returned
\* on a table with records of the requested position and of another one
C18_Witness ==
    /\ player_call = "returned"
    /\ top_call = "returned"
    /\ top_players # <<>>
    /\ player_scores # <<>>
    /\ \E i \in 1..Len(players_data) : players_data[i].position # position

----------------------------------------------------------------------------
(* Properties of compare_players *)

\* C16: compare_players called with two players whose positions differ
\* returns a mapping with an 'error' entry and no 'winner', 'player1' or
\* 'player2' entry, and computes no scores; a mapping with a winner is only
\* returned for two players of one position.
C16_MismatchedPositionsRefused ==
    /\ (player1 # <<>> /\ player1.position # player2.position /\ compare_call # "pending") =>
          /\ compare_call = "returned"
          /\ DOMAIN comparison = {"error"}
          /\ player_call = "pending"
          /\ player_scores = <<>>
    /\ (compare_call = "returned" /\ "winner" \in DOMAIN comparison) =>
          player1.position = player2.position

\* the error mapping was returned for two players of different positions who
\* would not have drawn, and, in the same specification, a winner was named
\* for two players of one position
C16_Witness ==
    /\ compare_call = "returned"
    /\ player1.position = "Forward"
    /\ player2.position = "Defender"
    /\ player1.stats["goals"] = Num(6)
    /\ player2.stats["goals"] = Num(0)
    /\ "error" \in DOMAIN comparison

----------------------------------------------------------------------------
(* Properties of the rebalance walk *)

\* C21: the returned assignment depends only on the stable descending order
\* of the entities: _balance_tiers gives the same result when the first-pass
\* labels are replaced by any other labelling (here: every constant labelling
\* and the first-pass labels read in reverse tier order).
C21_FirstPassIsDiscarded ==
    (tier_call = "returned" /\ team_scores # <<>>) =>
        LET sorted == SortedTeams(team_scores)
            first  == FirstPass(sorted)
        IN  /\ \A t \in TierNames : BalanceTiers([n \in Entities |-> t], sorted) = tiers
            /\ BalanceTiers([n \in Entities |-> tier_order[6 - TierRank(first[n])]], sorted) = tiers

\* 20 entities whose first-pass labels disagree with the returned tiers
C21_Witness ==
    /\ tier_call = "returned"
    /\ Len(team_scores) = 20
    /\ LET first == FirstPass(SortedTeams(team_scores))
       IN  /\ \E n \in Entities : first[n] # tiers[n]
           /\ Cardinality({n \in Entities : first[n] = "S"}) > ideal_distribution["S"]

----------------------------------------------------------------------------
(* Properties of score maps of tables with shared names *)

\* the row of the last record of a table that has the given name
LastRow(names, name) == Max({i \in 1..Len(names) : names[i] = name})

\* the entries of a score map for a name
EntriesFor(score_map, name) == {k \in 1..Len(score_map) : score_map[k].name = name}

\* C22: when records of a scoring group share a name, the returned score map
\* has exactly one entry for that name, holding the score of the last such
\* record in iteration order; the map has one entry per distinct name. This
\* holds for calculate_player_scores and for calculate_team_scores.
C22_LastDuplicateWins ==
    /\ player_call = "returned" =>
          LET rows  == PositionPlayers(players_data, position)
              names == [i \in 1..Len(rows) |-> rows[i].name]
              norms == NormalizePositionMetrics(rows, columns, position)
          IN  /\ Len(player_scores) = Cardinality({names[i] : i \in 1..Len(names)})
              /\ \A i \in 1..Len(rows) :
                    /\ Cardinality(EntriesFor(player_scores, names[i])) = 1
                    /\ ScoreOfName(player_scores, names[i])
                          = PlayerScore(norms, WeightsFor(position), LastRow(names, names[i]))
    /\ team_call = "returned" =>
          LET frame == NormalizedTeamsData(teams_data)
              names == [i \in 1..Len(frame) |-> frame[i].team]
          IN  /\ Len(scores) = Cardinality({names[i] : i \in 1..Len(names)})
              /\ \A i \in 1..Len(frame) :
                    /\ Cardinality(EntriesFor(scores, names[i])) = 1
                    /\ ScoreOfName(scores, names[i]) = TeamScore(frame[LastRow(names, names[i])])

\* three players were scored; the first and the last share a name and differ
\* in score, and the map holds the score of the last
C22_Witness ==
    /\ player_call = "returned"
    /\ Len(players_data) = 3
    /\ players_data[1].name = players_data[3].name
    /\ players_data[2].name # players_data[1].name
    /\ LET norms == NormalizePositionMetrics(players_data, columns, position)
       IN  PlayerScore(norms, WeightsFor(position), 1) # PlayerScore(norms, WeightsFor(position), 3)
    /\ Len(player_scores) = 2

----------------------------------------------------------------------------
(* Properties of calculate_team_scores on tables with undefined values *)

\* the weighted metrics of the team table: <<column, weight>>
TeamWeightMap ==
    <<<<"position", team_weights.league_position>>, <<"goals_for", team_weights.goals_scored>>,
      <<"goals_against", team_weights.goals_conceded>>, <<"possession_avg", team_weights.possession>>,
      <<"pass_accuracy", team_weights.pass_accuracy>>, <<"shots_per_game", team_weights.shots_per_game>>,
      <<"clean_sheets", team_weights.clean_sheets>>>>

\* the sum of term[k] over the weighted metrics row i holds, in the first k
RECURSIVE SumPresent(_, _, _, _)
SumPresent(data, i, k, term) ==
    IF k = 0 THEN Num(0)
    ELSE IF IsNaN(data[i].stats[TeamWeightMap[k][1]])
         THEN SumPresent(data, i, k - 1, term)
         ELSE Add(SumPresent(data, i, k - 1, term), term[k])

\* the score of row i over its present metrics, renormalized by their weights
RenormalizedTeamScore(data, i) ==
    LET frame == NormalizedTeamsData(data)
        weighted == [k \in 1..Len(TeamWeightMap) |->
                        Mul(frame[i].stats[NormName(TeamWeightMap[k][1])], TeamWeightMap[k][2])]
        weight   == [k \in 1..Len(TeamWeightMap) |-> TeamWeightMap[k][2]]
    IN  Div(SumPresent(data, i, Len(TeamWeightMap), weighted),
            SumPresent(data, i, Len(TeamWeightMap), weight))

\* C23: calculate_team_scores gives every team a defined score, also a team
\* whose value of a weighted metric is undefined: the metric is skipped and
\* the score is renormalized over the weights of the team's present metrics.
C23_UndefinedTeamMetricSkipped ==
    team_call = "returned" =>
        \A i \in 1..Len(scores) :
            /\ ~IsNaN(scores[i].score)
            /\ scores[i].score = RenormalizedTeamScore(teams_data, i)

----------------------------------------------------------------------------
(* Properties of the tier page *)

\* row a is at least as good as row b on every weighted metric
Dominates(data, a, b) ==
    /\ \A k \in 1..Len(HigherMetrics) :
          LessEq(data[b].stats[HigherMetrics[k]], data[a].stats[HigherMetrics[k]])
    /\ \A k \in 1..Len(LowerMetrics) :
          LessEq(data[a].stats[LowerMetrics[k]], data[b].stats[LowerMetrics[k]])

\* C25: when team a is at least as good as team b on every weighted metric,
\* calculate_team_scores gives score(a) >= score(b); and when score(a) >
\* score(b), assign_tiers does not put b in a strictly better tier than a.
C25_DominanceKeepsOrder ==
    team_call = "returned" =>
        \A a \in 1..Len(teams_data), b \in 1..Len(teams_data) :
            Dominates(teams_data, a, b) =>
                /\ LessEq(scores[b].score, scores[a].score)
                /\ (/\ tier_call = "returned"
                    /\ Less(scores[b].score, scores[a].score)
                    /\ a \in DOMAIN tiers
                    /\ b \in DOMAIN tiers) => TierRank(tiers[a]) <= TierRank(tiers[b])

----------------------------------------------------------------------------
(* Properties of the winner of compare_players *)

\* the two records hold the same value, or both none, for every weighted
\* metric of their position
SameMetrics(p1, p2) ==
    LET weights == WeightsFor(p1.position) IN
    \A k \in 1..Len(weights) :
        weights[k][1] \in DOMAIN p1.stats =>
            \/ Equal(p1.stats[weights[k][1]], p2.stats[weights[k][1]])
            \/ IsNaN(p1.stats[weights[k][1]]) /\ IsNaN(p2.stats[weights[k][1]])

\* C26: for two players of one position compare_players scores the two as a
\* group of two; 'winner' is the name of the player with the strictly higher
\* score and "Draw" exactly when the scores are equal. Two players with the
\* same metrics, and two records of one name, give "Draw"; the winner is one
\* of the two names or "Draw".
C26_WinnerHasHigherScore ==
    (compare_call = "returned" /\ player1.position = player2.position) =>
        LET rows   == <<player1, player2>>
            norms  == NormalizePositionMetrics(rows, DOMAIN player1.stats, player1.position)
            group1 == PlayerScore(norms, WeightsFor(player1.position), 1)
            group2 == PlayerScore(norms, WeightsFor(player1.position), 2)
            score1 == comparison.player1.score
            score2 == comparison.player2.score
        IN  /\ score2 = group2
            /\ score1 = IF player1.name = player2.name THEN group2 ELSE group1
            /\ Less(score2, score1) <=> comparison.winner = player1.name
            /\ Less(score1, score2) <=> comparison.winner = player2.name
            /\ Equal(score1, score2) <=> comparison.winner = "Draw"
            /\ SameMetrics(player1, player2) => comparison.winner = "Draw"
            /\ player1.name = player2.name => comparison.winner = "Draw"
            /\ comparison.winner \in {player1.name, player2.name, "Draw"}

\* the second player won against a first player of another name who scored
\* fewer goals
C26_Witness ==
    /\ compare_call = "returned"
    /\ player1.position = "Forward"
    /\ player2.position = "Forward"
    /\ player1.name # player2.name
    /\ player1.stats["goals"] = Num(0)
    /\ player2.stats["goals"] = Num(6)
    /\ comparison.winner = player2.name

----------------------------------------------------------------------------
(* Properties of get_top_players_by_position *)

\* C27: get_top_players_by_position(data, P, n) returns min(n, number of
\* players of P) rows, all records of position P with their score, in order of
\* non-increasing performance score, and no omitted player of P has a
\* strictly higher score than a returned one; it returns an empty table when
\* no player has position P.
C27_TopPlayersAreTheBest ==
    top_call = "returned" =>
        LET group    == OnlyPosition(players_data, position)
            group_sc == CalculatePlayerScores(group, columns, position)
            returned == {top_players[k].name : k \in 1..Len(top_players)}
        IN  /\ Len(top_players) = (IF top_n < Len(group) THEN top_n ELSE Len(group))
            /\ Cardinality(returned) = Len(top_players)
            /\ \A k \in 1..Len(top_players) :
                  /\ top_players[k].position = position
                  /\ \E i \in 1..Len(group) :
                        /\ group[i].name = top_players[k].name
                        /\ group[i].stats = top_players[k].stats
                  /\ top_players[k].performance_score = ScoreOfName(group_sc, top_players[k].name)
            /\ \A k \in 1..(Len(top_players) - 1) :
                  LessEq(top_players[k + 1].performance_score, top_players[k].performance_score)
            /\ \A i \in 1..Len(group), k \in 1..Len(top_players) :
                  group[i].name \notin returned =>
                      ~Less(top_players[k].performance_score, ScoreOfName(group_sc, group[i].name))
            /\ group = <<>> => top_players = <<>>

\* the best of three players of the position was returned; the first record
\* of the table is not the best
C27_Witness ==
    /\ top_call = "returned"
    /\ top_n = 1
    /\ Len(top_players) = 1
    /\ Len(players_data) = 3
    /\ \A i \in 1..3 : players_data[i].position = position
    /\ top_players[1].name # players_data[1].name
    /\ \E i \in 1..3 :
          Less(ScoreOfName(CalculatePlayerScores(players_data, columns, position), players_data[i].name),
               top_players[1].performance_score)

----------------------------------------------------------------------------
(* Properties of get_tier_analysis *)

\* the set of the teams an entry lists
TeamsOf(entry) == {entry.teams[i] : i \in 1..Len(entry.teams)}

\* C28: get_tier_analysis reports exactly the tiers that hold an entity; the
\* 'count' of an entry is the length of its 'teams' list; the 'teams' lists
\* are pairwise disjoint and their union is the key set of the assignment.
C28_AnalysisPartitionsTheAssignment ==
    analysis_call = "returned" =>
        /\ DOMAIN analysis = {t \in TierNames : InTier(t) # {}}
        /\ \A t \in DOMAIN analysis :
              /\ analysis[t].count = Len(analysis[t].teams)
              /\ analysis[t].count = Cardinality(TeamsOf(analysis[t]))
              /\ TeamsOf(analysis[t]) = InTier(t)
        /\ \A t \in DOMAIN analysis, u \in DOMAIN analysis :
              t # u => TeamsOf(analysis[t]) \cap TeamsOf(analysis[u]) = {}
        /\ UNION {TeamsOf(analysis[t]) : t \in DOMAIN analysis} = DOMAIN tiers

\* the analysis of 13 entities: four tiers are reported, D is not
C28_Witness ==
    /\ analysis_call = "returned"
    /\ Len(team_scores) = 13
    /\ DOMAIN analysis = {"S", "A", "B", "C"}
    /\ analysis["C"].count = 1

----------------------------------------------------------------------------
(* Properties of analyze_team_squad *)

\* the records of a team, selected by row
OnlyTeam(data, team) ==
    LET keep == {i \in 1..Len(data) : data[i].team = team}
        RECURSIVE Take(_)
        Take(k) == IF k = 0 THEN <<>>
                   ELSE IF k \in keep THEN Append(Take(k - 1), data[k]) ELSE Take(k - 1)
    IN  Take(Len(data))

\* the sum of the 'count' entries of a position breakdown
RECURSIVE CountSum(_, _)
CountSum(breakdown, positions) ==
    IF positions = {} THEN 0
    ELSE LET pos == CHOOSE x \in positions : TRUE
         IN  breakdown[pos].count + CountSum(breakdown, positions \ {pos})

\* C29: analyze_team_squad returns an empty mapping for a team without
\* players; otherwise, for every position of the squad, the top performer is
\* a player of the team and position whose score, normalized over the team's
\* players of the position only, is the maximum of that score map (the first
\* such player on ties), and the counts of 'position_breakdown' sum to
\* 'squad_size'.
C29_TopPerformerIsSquadBest ==
    squad_call = "returned" =>
        LET members == OnlyTeam(players_data, team_name) IN
        IF members = <<>> THEN squad = <<>>
        ELSE /\ squad.squad_size = Len(members)
             /\ DOMAIN squad.position_breakdown = {members[i].position : i \in 1..Len(members)}
             /\ CountSum(squad.position_breakdown, DOMAIN squad.position_breakdown) = squad.squad_size
             /\ DOMAIN squad.top_performers = {members[i].position : i \in 1..Len(members)}
             /\ \A pos \in DOMAIN squad.top_performers :
                   LET group == OnlyPosition(members, pos)
                       sc    == CalculatePlayerScores(group, DOMAIN group[1].stats, pos)
                       top   == squad.top_performers[pos]
                   IN  /\ \E i \in 1..Len(group) : group[i].name = top.name
                       /\ \E k \in 1..Len(sc) :
                             /\ sc[k].name = top.name
                             /\ sc[k].score = top.score
                             /\ \A j \in 1..Len(sc) : ~Less(top.score, sc[j].score)
                             /\ \A j \in 1..(k - 1) : Less(sc[j].score, top.score)

\* a squad of two forwards who tie, in a table with a forward of another team
\* who scored more: the first of the two is the top performer
C29_Witness ==
    /\ squad_call = "returned"
    /\ Len(players_data) = 3
    /\ squad # <<>>
    /\ squad.squad_size = 2
    /\ players_data[1].team = team_name
    /\ players_data[2].team # team_name
    /\ players_data[3].team = team_name
    /\ \A i \in 1..3 : players_data[i].position = "Forward"
    /\ players_data[1].stats["goals"] = Num(0)
    /\ players_data[2].stats["goals"] = Num(2)
    /\ players_data[3].stats["goals"] = Num(0)
    /\ squad.top_performers["Forward"].name = players_data[1].name

====
